---- MODULE Spec2Model ----
(***************************************************************************)
(* The fair-queue packet scheduler with co-flow promotion of src/sch_fq.c, *)
(* as a state machine over one scheduler instance.                         *)
(*                                                                         *)
(* Time is counted in ticks: one tick is one jiffy, so NSEC_PER_SEC and HZ *)
(* are the same number of ticks.  Packets are records; a flow's FIFO chain *)
(* (head..tail) and its EDT rb-tree (t_root) are sequences, the rb-tree in *)
(* its in-order traversal.  The three round-robin lists are sequences of   *)
(* flow keys and the rb-tree of throttled flows (q->delayed) is the        *)
(* sequence of its in-order traversal.                                     *)
(***************************************************************************)
EXTENDS Integers, Sequences, FiniteSets, TLC

\* ---------------------------------------------------------------- bounds
\* number of packets handed to fq_enqueue in one behaviour
MaxPkts == 3
\* the clock (ktime_get_ns, in ticks) stops advancing here
MaxTime == 2
\* ticks per second (NSEC_PER_SEC and HZ, scaled to the tick)
HZ == 2

NSEC_PER_SEC == HZ

\* ------------------------------------------------------ program constants
U64_MAX == 2147483647
TC_PRIO_MAX == 15
TC_PRIO_CONTROL == 7
FQ_GC_MAX == 8
FQ_GC_AGE == 3 * HZ
TCP_ESTABLISHED == 1
TCP_CLOSE == 7
TCP_LISTEN == 10
F1_SPORT == 46730
F2_SPORT == 46731

\* fq_init defaults
DefaultLimit == 10000
DefaultFlowPlimit == 100
\* 2 * psched_mtu and 10 * psched_mtu, with an MTU of one byte
Quantum == 2
InitialQuantum == 10
\* msecs_to_jiffies(40) at HZ ticks per second, rounded up
FlowRefillDelay == 1
\* 550000 / 8 bytes per second scaled to the model's byte rates
LowRateThreshold == 1
OrphanMask == 1023
\* 10 * NSEC_PER_SEC
Horizon == 10 * NSEC_PER_SEC
\* smallest table size fq_change accepts
FqTreesLog == 1

\* ----------------------------------------------------------- environment
NULL == 0
\* the key of q->internal
Internal == -1
NoSkb == [id |-> 0]

\* sockets (struct sock): aligned pointers, hence even
Socks == {2, 4, 6, 8, 10, 12, 14, 16}
sk_state(sk) == CASE sk = 6 -> TCP_CLOSE [] sk = 8 -> TCP_LISTEN [] OTHER -> TCP_ESTABLISHED
sk_num(sk) == CASE sk = 2 -> F1_SPORT [] sk = 4 -> F2_SPORT [] OTHER -> 5000 + sk
sk_pacing_rate(sk) == IF sk = 4 THEN 20 ELSE U64_MAX
\* skb_get_hash: the socket's tx hash, or the header hash of an unowned packet
skb_get_hash(sk) == CASE sk = 2 -> 1025 [] sk = 4 -> 2 [] sk = 14 -> 5 [] OTHER -> 3

Max(a, b) == IF a >= b THEN a ELSE b
Min(a, b) == IF a <= b THEN a ELSE b

\* max_t(u32, a, b) of an int a and a positive b, stored back in an int
MaxU32(a, b) == IF a < 0 THEN a ELSE Max(a, b)

\* x | 1UL
SetLowBit(x) == IF x % 2 = 0 THEN x + 1 ELSE x

RemoveAt(s, i) == SubSeq(s, 1, i - 1) \o SubSeq(s, i + 1, Len(s))
InsertAt(s, i, x) == SubSeq(s, 1, i - 1) \o <<x>> \o SubSeq(s, i, Len(s))
Range(s) == {s[i] : i \in 1..Len(s)}

\* ---------------------------------------------------------------- state
VARIABLES
  family,   \* the kind of traffic the host offers in this behaviour
  now,      \* ktime_get_ns() and jiffies, in ticks
  q,        \* struct fq_sched_data with the Qdisc's q.qlen and limit
  glob,     \* the file-scope variables pFlowid, sport, ucounter, flipflag
  ret,      \* what the last operation returned
  nextId,   \* the next packet to be handed to fq_enqueue
  accepted, \* packets for which fq_enqueue returned NET_XMIT_SUCCESS
  sent,     \* packets fq_dequeue returned to the host
  freed,    \* packets released by fq_reset (fq_flow_purge)
  trimmed,  \* packets fq_change dequeued and freed
  owed,     \* co-flow servings still due since the last breach
  fault,    \* "none", or how the kernel stopped inside an operation
  reuse,    \* socket addresses the host has reallocated to a new endpoint
  lead,     \* for two flows backlogged together: bytes served from the first
            \* minus bytes served from the second since both are backlogged
  served,   \* the packets returned from each flow, with the time of the return
  peer,     \* struct fq_sched_data of a second Qdisc of the same module
  alone     \* the first Qdisc and its file-scope variables as they would be
            \* had no other Qdisc run, with the packet its last fq_dequeue
            \* returned

vars == <<family, now, q, glob, ret, nextId, accepted, sent, freed, trimmed, owed,
          fault, reuse, lead, served, peer, alone>>

\* sk->sk_hash: the hash of the endpoint that lives at the address now.  The
\* endpoint reallocated at address 12 gets a hash of its own; the one
\* reallocated at address 14 gets the hash its predecessor's packets carried
sk_hash(sk) ==
  CASE sk = 2 -> 1
    [] sk = 4 -> 9
    [] sk = 12 /\ sk \in reuse -> 50
    [] sk = 14 /\ sk \in reuse -> 5
    [] OTHER -> 20 + sk

\* the heads a flow can be served from
Lists == {"new_flows", "old_flows", "co_flows"}

\* kmem_cache_zalloc + fq_flow_set_detached + credit of a new flow
NewFlow(sk, jiffies) ==
  [sk |-> sk, socket_hash |-> 0, head |-> <<>>, t_root |-> <<>>, qlen |-> 0,
   credit |-> 0, time_next_packet |-> 0, detached |-> TRUE,
   age |-> SetLowBit(jiffies)]

\* q->internal: zeroed with the qdisc, never marked detached
InternalFlow ==
  [sk |-> NULL, socket_hash |-> 0, head |-> <<>>, t_root |-> <<>>, qlen |-> 0,
   credit |-> 0, time_next_packet |-> 0, detached |-> FALSE, age |-> 0]

fq_flow_set_detached(f, jiffies) ==
  [f EXCEPT !.detached = TRUE, !.age = SetLowBit(jiffies)]

fq_flow_is_detached(f) == f.detached

fq_flow_is_throttled(s, k) == k \in Range(s.delayed)

\* append a flow at the tail of one round-robin list
fq_flow_add_tail(s, head, k) == [s EXCEPT ![head] = Append(@, k)]

\* head->first = f->next
PopFirst(s, head) == [s EXCEPT ![head] = Tail(@)]

\* rb_erase from q->delayed, then to the tail of old_flows
fq_flow_unset_throttled(s, k) ==
  LET i == CHOOSE j \in 1..Len(s.delayed) : s.delayed[j] = k
      s1 == [s EXCEPT !.delayed = RemoveAt(@, i),
                      !.throttled_flows = @ - 1]
  IN fq_flow_add_tail(s1, "old_flows", k)

\* position of a flow in q->delayed: after every flow whose
\* time_next_packet is not larger (the walk goes right on >=)
ThrottlePos(s, t) ==
  1 + Cardinality({j \in 1..Len(s.delayed) :
                     s.flow[s.delayed[j]].time_next_packet <= t})

\* variant that forgets to lower q->time_next_delayed_flow
fq_flow_set_throttled_KeepsNext(s, k) ==
  LET t == s.flow[k].time_next_packet
  IN [s EXCEPT !.delayed = InsertAt(@, ThrottlePos(s, t), k),
               !.throttled_flows = @ + 1]

fq_flow_set_throttled(s, k) ==
  LET t == s.flow[k].time_next_packet
  IN [s EXCEPT !.delayed = InsertAt(@, ThrottlePos(s, t), k),
               !.throttled_flows = @ + 1,
               !.time_next_delayed_flow = IF @ > t THEN t ELSE @]

\* ------------------------------------------------------- per-flow queue
\* the earlier of the EDT tree's first packet and the chain's head
fq_peek(f) ==
  IF f.t_root = <<>> THEN (IF f.head = <<>> THEN NoSkb ELSE Head(f.head))
  ELSE IF f.head = <<>> THEN Head(f.t_root)
  ELSE IF Head(f.t_root).time_to_send < Head(f.head).time_to_send
       THEN Head(f.t_root)
       ELSE Head(f.head)

\* variant that leaves the packet linked in the flow
fq_erase_head_Keeps(f, skb) == f

fq_erase_head(f, skb) ==
  IF f.head # <<>> /\ Head(f.head).id = skb.id
  THEN [f EXCEPT !.head = Tail(@)]
  ELSE [f EXCEPT !.t_root =
          RemoveAt(@, CHOOSE i \in 1..Len(@) : @[i].id = skb.id)]

\* variant in which sch->q.qlen
\* is not decremented with the flow's qlen
fq_dequeue_skb_KeepsQlen(s, k, skb) ==
  [s EXCEPT !.flow[k] = [fq_erase_head(@, skb) EXCEPT !.qlen = @ - 1]]

\* remove the packet fq_peek returned from flow k
fq_dequeue_skb(s, k, skb) ==
  [s EXCEPT !.flow[k] = [fq_erase_head(@, skb) EXCEPT !.qlen = @ - 1],
            !.qlen = @ - 1]

\* where the rb-tree walk of flow_queue_add links the packet: right of
\* every packet whose time_to_send is not larger
TreePos(t_root, tts) ==
  1 + Cardinality({j \in 1..Len(t_root) : t_root[j].time_to_send <= tts})

\* variant that always links the packet at the tail of the chain
flow_queue_add_TailOnly(f, skb) ==
  [f EXCEPT !.head = Append(@, skb), !.detached = FALSE, !.age = 0]

\* variant whose store to flow->tail leaves f->age as it was
flow_queue_add_KeepsAge(f, skb) ==
  IF f.head = <<>> \/ skb.time_to_send >= f.head[Len(f.head)].time_to_send
  THEN [f EXCEPT !.head = Append(@, skb)]
  ELSE [f EXCEPT !.t_root = InsertAt(@, TreePos(@, skb.time_to_send), skb)]

flow_queue_add(f, skb) ==
  IF f.head = <<>> \/ skb.time_to_send >= f.head[Len(f.head)].time_to_send
  THEN \* flow->tail = skb overwrites f->age: the flow is no longer detached
       [f EXCEPT !.head = Append(@, skb), !.detached = FALSE, !.age = 0]
  ELSE [f EXCEPT !.t_root = InsertAt(@, TreePos(@, skb.time_to_send), skb)]

\* ---------------------------------------------------------- classification
\* h & mask, for a mask of the form 2^n - 1
BitAnd(h, mask) == h % (mask + 1)

\* (hash << 1) | 1UL
OrphanKey(hash) == SetLowBit(BitAnd(hash, OrphanMask) * 2)

sk_listener(sk) == sk_state(sk) = TCP_LISTEN

TableKeys(s) == DOMAIN s.flow \ {Internal}

\* a candidate test that does not look at the age
fq_gc_candidate_AnyAge(f, jiffies) == fq_flow_is_detached(f)

fq_gc_candidate(f, jiffies) ==
  fq_flow_is_detached(f) /\ jiffies > f.age + FQ_GC_AGE

\* the condition under which fq_classify calls fq_gc
GcPressure(s) ==
  /\ s.flows >= 2 * (2 ^ s.fq_trees_log)
  /\ s.inactive_flows > s.flows \div 2

\* what one fq_gc call may free: detached, aged flows other than the one
\* looked up, at most FQ_GC_MAX of them (those the walk to sk passes)
GcChoices(s, sk, jiffies) ==
  IF GcPressure(s)
  THEN {G \in SUBSET {k \in TableKeys(s) : k # sk /\ fq_gc_candidate(s.flow[k], jiffies)} :
          Cardinality(G) <= FQ_GC_MAX}
  ELSE {{}}

fq_gc(s, G) ==
  [s EXCEPT !.flow = [k \in DOMAIN @ \ G |-> @[k]],
            !.flows = @ - Cardinality(G),
            !.inactive_flows = @ - Cardinality(G),
            !.stat.gc_flows = @ + Cardinality(G)]

\* the key fq_classify looks up, and the owner the packet is left with
ClassifyKey(skb) ==
  IF skb.sk = NULL \/ sk_listener(skb.sk) THEN OrphanKey(skb.hash)
  ELSE IF sk_state(skb.sk) = TCP_CLOSE THEN OrphanKey(skb.hash)
  ELSE skb.sk

ClassifyOwner(skb) ==
  IF skb.sk = NULL \/ sk_listener(skb.sk) THEN NULL ELSE skb.sk

\* the flow already in the table: credit refill when the socket's hash is
\* not the one the flow remembers
ClassifyHit(s, sk, owner) ==
  IF owner = sk /\ s.flow[sk].socket_hash # sk_hash(sk)
  THEN LET s1 == [s EXCEPT !.flow[sk].credit = InitialQuantum,
                           !.flow[sk].socket_hash = sk_hash(sk)]
           s2 == IF fq_flow_is_throttled(s1, sk)
                 THEN fq_flow_unset_throttled(s1, sk) ELSE s1
       IN [s2 EXCEPT !.flow[sk].time_next_packet = 0]
  ELSE s

\* a new flow linked into the table
ClassifyMiss(s, sk, owner, jiffies) ==
  LET f0 == NewFlow(sk, jiffies)
      f1 == IF owner = sk THEN [f0 EXCEPT !.socket_hash = sk_hash(sk)] ELSE f0
      f2 == [f1 EXCEPT !.credit = InitialQuantum]
  IN [s EXCEPT !.flow = @ @@ (sk :> f2),
               !.flows = @ + 1,
               !.inactive_flows = @ + 1]

\* fq_classify that does not count a failed allocation
fq_classify_FailUncounted(s, skb, G, allocOk, jiffies) ==
  IF BitAnd(skb.priority, TC_PRIO_MAX) = TC_PRIO_CONTROL
  THEN [s |-> s, f |-> Internal, skb |-> skb]
  ELSE LET sk == ClassifyKey(skb)
           skb1 == [skb EXCEPT !.sk = ClassifyOwner(skb)]
           s1 == fq_gc(s, G)
       IN IF sk \in TableKeys(s1)
          THEN [s |-> ClassifyHit(s1, sk, skb1.sk), f |-> sk, skb |-> skb1]
          ELSE IF ~allocOk
          THEN [s |-> s1,
                f |-> Internal, skb |-> skb1]
          ELSE [s |-> ClassifyMiss(s1, sk, skb1.sk, jiffies), f |-> sk, skb |-> skb1]

\* [s, f, skb]: the scheduler after classification, the key of the flow
\* returned, and the packet (orphaned or not)
fq_classify(s, skb, G, allocOk, jiffies) ==
  IF BitAnd(skb.priority, TC_PRIO_MAX) = TC_PRIO_CONTROL
  THEN [s |-> s, f |-> Internal, skb |-> skb]
  ELSE LET sk == ClassifyKey(skb)
           skb1 == [skb EXCEPT !.sk = ClassifyOwner(skb)]
           s1 == fq_gc(s, G)
       IN IF sk \in TableKeys(s1)
          THEN [s |-> ClassifyHit(s1, sk, skb1.sk), f |-> sk, skb |-> skb1]
          ELSE IF ~allocOk
          THEN [s |-> [s1 EXCEPT !.stat.allocation_errors = @ + 1],
                f |-> Internal, skb |-> skb1]
          ELSE [s |-> ClassifyMiss(s1, sk, skb1.sk, jiffies), f |-> sk, skb |-> skb1]

\* ------------------------------------------------------------- fq_enqueue
\* a horizon test that lets every timestamp pass
fq_packet_beyond_horizon_Never(s, skb) == FALSE

fq_packet_beyond_horizon(s, skb) == skb.tstamp > s.ktime_cache + Horizon

\* time_to_send of the packet and the horizon policy: [s, skb, drop]
EnqueueStamp(s, skb, t) ==
  IF skb.tstamp = 0
  THEN [s |-> [s EXCEPT !.ktime_cache = t],
        skb |-> [skb EXCEPT !.time_to_send = t], drop |-> FALSE]
  ELSE LET s1 == IF fq_packet_beyond_horizon(s, skb)
                 THEN [s EXCEPT !.ktime_cache = t] ELSE s
           beyond == fq_packet_beyond_horizon(s, skb)
                       /\ fq_packet_beyond_horizon(s1, skb)
       IN IF beyond /\ s1.horizon_drop = 1
          THEN [s |-> [s1 EXCEPT !.stat.horizon_drops = @ + 1],
                skb |-> skb, drop |-> TRUE]
          ELSE IF beyond
          THEN [s |-> [s1 EXCEPT !.stat.horizon_caps = @ + 1],
                skb |-> [skb EXCEPT !.tstamp = s1.ktime_cache + Horizon,
                                    !.time_to_send = s1.ktime_cache + Horizon],
                drop |-> FALSE]
          ELSE [s |-> s1, skb |-> [skb EXCEPT !.time_to_send = skb.tstamp],
                drop |-> FALSE]

\* variant that does not link the flow on new_flows
EnqueueActivate_NoLink(s, k, skb, jiffies) ==
  LET f == s.flow[k]
      s2 == [s EXCEPT !.sport = sk_num(skb.sk)]
      s3 == IF jiffies > f.age + FlowRefillDelay
            THEN [s2 EXCEPT !.flow[k].credit = MaxU32(@, Quantum)] ELSE s2
  IN [s3 EXCEPT !.inactive_flows = @ - 1]

\* the placement of the commented-out branch: a flow whose hash is a learned
\* co-flow id is linked to co_flows
EnqueueActivate_ToCoflows(s, k, skb, jiffies) ==
  LET to == IF \E i \in 1..2 : s.pFlowid[i] # 0 /\ s.pFlowid[i] = s.flow[k].socket_hash
            THEN "co_flows" ELSE "new_flows"
      s1 == fq_flow_add_tail(s, to, k)
      f == s1.flow[k]
      s2 == [s1 EXCEPT !.sport = sk_num(skb.sk)]
      s3 == IF jiffies > f.age + FlowRefillDelay
            THEN [s2 EXCEPT !.flow[k].credit = MaxU32(@, Quantum)] ELSE s2
  IN [s3 EXCEPT !.inactive_flows = @ - 1]

\* a detached flow goes to new_flows; sport is read through skb->sk
EnqueueActivate(s, k, skb, jiffies) ==
  LET s1 == fq_flow_add_tail(s, "new_flows", k)
      f == s1.flow[k]
      s2 == [s1 EXCEPT !.sport = sk_num(skb.sk)]
      s3 == IF jiffies > f.age + FlowRefillDelay
            THEN [s2 EXCEPT !.flow[k].credit = MaxU32(@, Quantum)] ELSE s2
  IN [s3 EXCEPT !.inactive_flows = @ - 1]

\* f->socket_hash = pHash, and the co-flow ids learned from sport
EnqueueLearn(s, k, skb) ==
  LET pHash == BitAnd(skb.hash, OrphanMask)
      s1 == [s EXCEPT !.flow[k].socket_hash = pHash]
      s2 == IF s1.sport = F1_SPORT THEN [s1 EXCEPT !.pFlowid[1] = pHash] ELSE s1
  IN IF s2.sport = F2_SPORT THEN [s2 EXCEPT !.pFlowid[2] = pHash] ELSE s2

\* from f->qlen++ to the end: [s, res]
EnqueueTail(s, k, skb, jiffies) ==
  LET s1 == [s EXCEPT !.flow[k].qlen = @ + 1]
      det == fq_flow_is_detached(s1.flow[k])
  IN IF det /\ skb.sk = NULL
     THEN \* skb->sk->sk_num with skb->sk == NULL, after the flow was linked
          [s |-> fq_flow_add_tail(s1, "new_flows", k), res |-> "oops"]
     ELSE LET s2 == IF det THEN EnqueueActivate(s1, k, skb, jiffies) ELSE s1
              s3 == EnqueueLearn(s2, k, skb)
              s4 == [s3 EXCEPT !.flow[k] = flow_queue_add(@, skb)]
          IN [s |-> [s4 EXCEPT !.qlen = @ + 1], res |-> "success"]

\* fq_enqueue without the per-flow limit of lines 399-403
fq_enqueue_NoFlowLimit(s, skb, G, allocOk, t) ==
  IF s.qlen >= s.limit
  THEN [s |-> s, res |-> "drop_tail", f |-> NULL, skb |-> skb]
  ELSE LET st == EnqueueStamp(s, skb, t)
       IN IF st.drop
          THEN [s |-> st.s, res |-> "drop_horizon", f |-> NULL, skb |-> skb]
          ELSE LET c == fq_classify(st.s, st.skb, G, allocOk, t)
               IN IF FALSE
                  THEN [s |-> [c.s EXCEPT !.stat.flows_plimit = @ + 1],
                        res |-> "drop_flow", f |-> c.f, skb |-> c.skb]
                  ELSE LET e == EnqueueTail(c.s, c.f, c.skb, t)
                       IN [s |-> e.s, res |-> e.res, f |-> c.f, skb |-> c.skb]

\* [s, res, f, skb]; res is "success", a drop reason, or "oops"
fq_enqueue(s, skb, G, allocOk, t) ==
  IF s.qlen >= s.limit
  THEN [s |-> s, res |-> "drop_tail", f |-> NULL, skb |-> skb]
  ELSE LET st == EnqueueStamp(s, skb, t)
       IN IF st.drop
          THEN [s |-> st.s, res |-> "drop_horizon", f |-> NULL, skb |-> skb]
          ELSE LET c == fq_classify(st.s, st.skb, G, allocOk, t)
               IN IF c.s.flow[c.f].qlen >= c.s.flow_plimit /\ c.f # Internal
                  THEN [s |-> [c.s EXCEPT !.stat.flows_plimit = @ + 1],
                        res |-> "drop_flow", f |-> c.f, skb |-> c.skb]
                  ELSE LET e == EnqueueTail(c.s, c.f, c.skb, t)
                       IN [s |-> e.s, res |-> e.res, f |-> c.f, skb |-> c.skb]

\* ------------------------------------------------------------- fq_dequeue
RateEnable == 1

\* flow_max_rate: unlimited unless configured, 2 bytes a second in the
\* rate scenario
FlowMaxRate == IF family = "rate" THEN 2 ELSE U64_MAX

\* x >> 3
Shr3(x) == x \div 8

RECURSIVE UnthrottleDue(_, _)
UnthrottleDue(s, t) ==
  IF s.delayed = <<>> THEN s
  ELSE LET k == Head(s.delayed)
       IN IF s.flow[k].time_next_packet > t
          THEN [s EXCEPT !.time_next_delayed_flow = s.flow[k].time_next_packet]
          ELSE UnthrottleDue(fq_flow_unset_throttled(s, k), t)

fq_check_throttled(s, t) ==
  IF s.time_next_delayed_flow > t THEN s
  ELSE LET sample == t - s.time_next_delayed_flow
           s1 == [s EXCEPT !.unthrottle_latency_ns = (@ - Shr3(@)) + Shr3(sample),
                           !.time_next_delayed_flow = U64_MAX]
       IN UnthrottleDue(s1, t)

\* index of val in the array, or -1
valuePresentInArray(val, arr) ==
  IF \E i \in 1..Len(arr) : arr[i] = val
  THEN (CHOOSE i \in 1..Len(arr) : arr[i] = val /\ \A j \in 1..(i - 1) : arr[j] # val) - 1
  ELSE -1

\* the flow at the head of a regular list moves to the tail of co_flows
Promotecoflows(s, head, k) ==
  fq_flow_add_tail(PopFirst(s, head), "co_flows", k)

\* variant that looks at the flow's pacing time only
SendTime_FlowOnly(skb, f) == f.time_next_packet

\* the earliest time the flow may send the packet
SendTime(skb, f) == Max(skb.time_to_send, f.time_next_packet)

\* the list fq_dequeue serves from at label begin, or "none"
PickHead(s) ==
  LET start == IF s.flipflag # 0 THEN "co_flows" ELSE "new_flows"
  IN IF s[start] # <<>> THEN start
     ELSE IF s.new_flows # <<>> THEN "new_flows"
     ELSE IF s.old_flows # <<>> THEN "old_flows"
     ELSE "none"

\* fq_dequeue's accounting without the test at line 720: every packet
\* starts a delay, whatever credit is left
DequeueAccount_AlwaysPaced(s, k, skb, t) ==
  LET s1 == [s EXCEPT !.flow[k].credit = @ - skb.len]
      rate == IF skb.tstamp = 0 /\ skb.sk # NULL
              THEN Min(sk_pacing_rate(skb.sk), FlowMaxRate) ELSE FlowMaxRate
      low == skb.tstamp = 0 /\ rate <= LowRateThreshold
      s2 == IF low THEN [s1 EXCEPT !.flow[k].credit = 0] ELSE s1
      plen == IF skb.tstamp = 0 /\ ~low THEN Max(skb.len, Quantum) ELSE skb.len
      len0 == IF rate # 0 THEN (plen * NSEC_PER_SEC) \div rate
              ELSE plen * NSEC_PER_SEC
      long == len0 > NSEC_PER_SEC
      len1 == IF long THEN NSEC_PER_SEC ELSE len0
      tnp == s2.flow[k].time_next_packet
      len2 == IF tnp # 0 THEN len1 - Min(len1 \div 2, t - tnp) ELSE len1
  IN IF RateEnable = 0 THEN s1
     ELSE IF rate = U64_MAX THEN s2
     ELSE [s2 EXCEPT !.flow[k].time_next_packet = t + len2]

\* credit and pacing after the packet left flow k
DequeueAccount(s, k, skb, t) ==
  LET s1 == [s EXCEPT !.flow[k].credit = @ - skb.len]
      rate == IF skb.tstamp = 0 /\ skb.sk # NULL
              THEN Min(sk_pacing_rate(skb.sk), FlowMaxRate) ELSE FlowMaxRate
      low == skb.tstamp = 0 /\ rate <= LowRateThreshold
      s2 == IF low THEN [s1 EXCEPT !.flow[k].credit = 0] ELSE s1
      plen == IF skb.tstamp = 0 /\ ~low THEN Max(skb.len, Quantum) ELSE skb.len
      len0 == IF rate # 0 THEN (plen * NSEC_PER_SEC) \div rate
              ELSE plen * NSEC_PER_SEC
      long == len0 > NSEC_PER_SEC
      len1 == IF long THEN NSEC_PER_SEC ELSE len0
      tnp == s2.flow[k].time_next_packet
      len2 == IF tnp # 0 THEN len1 - Min(len1 \div 2, t - tnp) ELSE len1
  IN IF RateEnable = 0 THEN s1
     ELSE IF skb.tstamp = 0 /\ ~low /\ s2.flow[k].credit > 0 THEN s2
     ELSE IF rate = U64_MAX THEN s2
     ELSE [s2 EXCEPT !.flow[k].time_next_packet = t + len2]

\* the flow at the head has no packet: to old_flows or detached
DequeueEmpty(s, head, k, jiffies) ==
  LET s1 == PopFirst(s, head)
  IN IF head \in {"new_flows", "co_flows"} /\ s1.old_flows # <<>>
     THEN fq_flow_add_tail(s1, "old_flows", k)
     ELSE [s1 EXCEPT !.flow[k] = fq_flow_set_detached(@, jiffies),
                     !.inactive_flows = @ + 1]

\* a credit gate that sends the flow to the tail of the list it was found on
DequeueGate_SameList(s, head, k) ==
  fq_flow_add_tail(PopFirst([s EXCEPT !.flow[k].credit = @ + Quantum], head),
                   head, k)

\* the flow at the head has no credit: quantum added, to the tail of old_flows
DequeueGate(s, head, k) ==
  fq_flow_add_tail(PopFirst([s EXCEPT !.flow[k].credit = @ + Quantum], head),
                   "old_flows", k)

\* the loop from label begin: [s, skb, from, hang, breach]
RECURSIVE DequeueLoop(_, _, _)
DequeueLoop(s, t, breach) ==
  LET head == PickHead(s)
  IN IF head = "none"
     THEN [s |-> IF s.time_next_delayed_flow # U64_MAX
                 THEN [s EXCEPT !.watchdog = s.time_next_delayed_flow] ELSE s,
           skb |-> NoSkb, from |-> "none", hang |-> FALSE, breach |-> breach]
     ELSE
     LET k == Head(s[head])
         f == s.flow[k]
         rValue == valuePresentInArray(f.socket_hash, s.pFlowid)
     IN IF rValue # -1 /\ head # "co_flows"
        THEN DequeueLoop([Promotecoflows(s, head, k) EXCEPT !.ucounter = @ + 1],
                         t, breach)
        ELSE IF s.ucounter = 2 /\ head # "co_flows"
        THEN IF s.flipflag = 1
             THEN \* flipflag = 1 changes nothing: begin is reached in the same state
                  [s |-> s, skb |-> NoSkb, from |-> head, hang |-> TRUE,
                   breach |-> breach]
             ELSE DequeueLoop([s EXCEPT !.flipflag = 1], t, TRUE)
        ELSE IF s.ucounter = 0 /\ head = "co_flows"
        THEN DequeueLoop([s EXCEPT !.flipflag = 0], t, breach)
        ELSE
        LET s1 == IF s.flipflag # 0 /\ head = "co_flows"
                  THEN [s EXCEPT !.ucounter = @ - 1] ELSE s
            skb == fq_peek(f)
            time_next_packet == SendTime(skb, f)
        IN IF f.credit <= 0
           THEN DequeueLoop(DequeueGate(s1, head, k), t, breach)
           ELSE IF skb.id = 0
           THEN DequeueLoop(DequeueEmpty(s1, head, k, t), t, breach)
           ELSE IF t < time_next_packet
           THEN DequeueLoop(
                  fq_flow_set_throttled(
                    PopFirst([s1 EXCEPT !.flow[k].time_next_packet = time_next_packet],
                             head), k), t, breach)
           ELSE [s |-> DequeueAccount(fq_dequeue_skb(s1, k, skb), k, skb, t),
                    skb |-> skb, from |-> head, hang |-> FALSE, breach |-> breach]

\* fq_dequeue without the test of the internal flow at lines 568-572
fq_dequeue_NoInternal(s, t) ==
  IF s.qlen = 0
  THEN [s |-> s, skb |-> NoSkb, from |-> "none", hang |-> FALSE, breach |-> FALSE]
  ELSE DequeueLoop(fq_check_throttled([s EXCEPT !.ktime_cache = t], t), t, FALSE)

\* [s, skb, from, hang, breach]
fq_dequeue(s, t) ==
  IF s.qlen = 0
  THEN [s |-> s, skb |-> NoSkb, from |-> "none", hang |-> FALSE, breach |-> FALSE]
  ELSE IF fq_peek(s.flow[Internal]).id # 0
  THEN [s |-> fq_dequeue_skb(s, Internal, fq_peek(s.flow[Internal])),
        skb |-> fq_peek(s.flow[Internal]), from |-> "internal",
        hang |-> FALSE, breach |-> FALSE]
  ELSE DequeueLoop(fq_check_throttled([s EXCEPT !.ktime_cache = t], t), t, FALSE)

\* --------------------------------------------------- fq_reset, fq_change
QueuedSkbs(f) == f.head \o f.t_root
QueuedIds(f) == {QueuedSkbs(f)[i].id : i \in 1..Len(QueuedSkbs(f))}
AllQueuedIds(s) == UNION {QueuedIds(s.flow[k]) : k \in DOMAIN s.flow}

\* every packet of the flow is released; head = NULL, qlen = 0
fq_flow_purge(f) == [f EXCEPT !.t_root = <<>>, !.head = <<>>, !.qlen = 0]

\* fq_reset that leaves the throttled tree and its count as they were
fq_reset_KeepsDelayed(s) ==
  [s EXCEPT !.qlen = 0,
            !.flow = (Internal :> fq_flow_purge(s.flow[Internal])),
            !.new_flows = <<>>,
            !.old_flows = <<>>,
            !.co_flows = <<>>,
            !.flows = 0,
            !.inactive_flows = 0]

\* the flows of the table are purged and freed; q->internal stays
fq_reset(s) ==
  [s EXCEPT !.qlen = 0,
            !.flow = (Internal :> fq_flow_purge(s.flow[Internal])),
            !.new_flows = <<>>,
            !.old_flows = <<>>,
            !.co_flows = <<>>,
            !.delayed = <<>>,
            !.flows = 0,
            !.inactive_flows = 0,
            !.throttled_flows = 0]

\* fq_reset, then the pending wakeup is cancelled
fq_destroy(s) == [fq_reset(s) EXCEPT !.watchdog = 0]

\* the flows move to the new array, but for the detached, aged ones, which
\* are freed
fq_rehash(s, jiffies) ==
  LET G == {k \in TableKeys(s) : fq_gc_candidate(s.flow[k], jiffies)}
  IN [s EXCEPT !.flow = [k \in DOMAIN @ \ G |-> @[k]],
               !.flows = @ - Cardinality(G),
               !.inactive_flows = @ - Cardinality(G),
               !.stat.gc_flows = @ + Cardinality(G)]

fq_resize(s, log, jiffies) ==
  IF log = s.fq_trees_log THEN s
  ELSE [fq_rehash(s, jiffies) EXCEPT !.fq_trees_log = log]

\* servings still due to co_flows after one fq_dequeue result
OwedAtServe(r, o) == IF r.breach THEN 2 ELSE o
OwedAfter(r, o) ==
  IF r.skb.id # 0 /\ r.from = "co_flows" THEN Max(OwedAtServe(r, o) - 1, 0)
  ELSE OwedAtServe(r, o)

\* the trim of fq_change as a single attempt instead of a loop
ChangeTrim_Once(s, t, ids, o) ==
  IF s.qlen > s.limit
  THEN LET r == fq_dequeue(s, t)
       IN IF r.hang THEN [s |-> r.s, ids |-> ids, hang |-> TRUE, owed |-> o]
          ELSE IF r.skb.id = 0
          THEN [s |-> r.s, ids |-> ids, hang |-> FALSE, owed |-> OwedAfter(r, o)]
          ELSE [s |-> r.s, ids |-> ids \cup {r.skb.id}, hang |-> FALSE,
                owed |-> OwedAfter(r, o)]
  ELSE [s |-> s, ids |-> ids, hang |-> FALSE, owed |-> o]

\* while (sch->q.qlen > sch->limit): [s, ids, hang, owed]
RECURSIVE ChangeTrim(_, _, _, _)
ChangeTrim(s, t, ids, o) ==
  IF s.qlen > s.limit
  THEN LET r == fq_dequeue(s, t)
       IN IF r.hang THEN [s |-> r.s, ids |-> ids, hang |-> TRUE, owed |-> o]
          ELSE IF r.skb.id = 0
          THEN [s |-> r.s, ids |-> ids, hang |-> FALSE, owed |-> OwedAfter(r, o)]
          ELSE ChangeTrim(r.s, t, ids \cup {r.skb.id}, OwedAfter(r, o))
  ELSE [s |-> s, ids |-> ids, hang |-> FALSE, owed |-> o]

\* the attributes a change request carries; -1 stands for an absent one
NoAttr == -1
ChangeOptsOf(fam) ==
  CASE fam = "admit" ->
         {[limit |-> 1, flow_plimit |-> NoAttr, horizon_drop |-> NoAttr],
          [limit |-> NoAttr, flow_plimit |-> 1, horizon_drop |-> NoAttr]}
    [] fam = "trim" ->
         {[limit |-> 1, flow_plimit |-> NoAttr, horizon_drop |-> NoAttr]}
    [] fam = "flowlim" ->
         {[limit |-> NoAttr, flow_plimit |-> 1, horizon_drop |-> NoAttr]}
    [] fam = "cap" ->
         {[limit |-> NoAttr, flow_plimit |-> NoAttr, horizon_drop |-> 0]}
    [] OTHER -> {}

fq_change(s, opt, t, o) ==
  LET s1 == IF opt.limit # NoAttr THEN [s EXCEPT !.limit = opt.limit] ELSE s
      s2 == IF opt.flow_plimit # NoAttr
            THEN [s1 EXCEPT !.flow_plimit = opt.flow_plimit] ELSE s1
      s3 == IF opt.horizon_drop # NoAttr
            THEN [s2 EXCEPT !.horizon_drop = opt.horizon_drop] ELSE s2
  IN ChangeTrim(s3, t, {}, o)

\* ------------------------------------------------------------ the machine
QInit ==
  [flow |-> (Internal :> InternalFlow),
   new_flows |-> <<>>, old_flows |-> <<>>, co_flows |-> <<>>, delayed |-> <<>>,
   qlen |-> 0, limit |-> DefaultLimit, flow_plimit |-> DefaultFlowPlimit,
   horizon_drop |-> 1, fq_trees_log |-> FqTreesLog,
   flows |-> 0, inactive_flows |-> 0, throttled_flows |-> 0,
   time_next_delayed_flow |-> U64_MAX, ktime_cache |-> 0,
   unthrottle_latency_ns |-> 0, watchdog |-> 0,
   stat |-> [gc_flows |-> 0, flows_plimit |-> 0, allocation_errors |-> 0,
             horizon_drops |-> 0, horizon_caps |-> 0]]

\* the file-scope variables of the co-flow policy, zero-initialised
GlobInit == [pFlowid |-> <<0, 0>>, sport |-> 0, ucounter |-> 0, flipflag |-> 0]

NoRet == [op |-> "init", res |-> "none", skb |-> NoSkb, f |-> NULL,
          from |-> "none", owed |-> 0]

Families == {"coflow", "edt", "host", "admit"}

Init ==
  /\ family \in Families
  /\ now = 1
  /\ q = QInit
  /\ glob = GlobInit
  /\ ret = NoRet
  /\ nextId = 1
  /\ accepted = {}
  /\ sent = {}
  /\ freed = {}
  /\ trimmed = {}
  /\ owed = 0
  /\ fault = "none"
  /\ reuse = {}
  /\ lead = <<>>
  /\ served = {}
  /\ peer = QInit
  /\ alone = [s |-> QInit @@ GlobInit, skb |-> NoSkb]

\* the scheduler and the file-scope variables as one record, and back
S == q @@ glob
QOf(s) == [x \in DOMAIN q |-> s[x]]
GlobOf(s) == [x \in DOMAIN glob |-> s[x]]

\* packets of the fairness scenario, all of one size, larger than
\* 2 * initial_quantum + quantum
FairLen == 2 * InitialQuantum + Quantum + 3

\* the packets the host hands to fq_enqueue: <<sk, priority, tstamp - now
\* (0: no tstamp), length, allocation succeeds>>
\* the two-flows scenario: PerFlow packets of TwoLen bytes for each of two
\* flows, offered in turn; in "two" neither socket is bound to a co-flow
\* port, in "twoco" the first one is bound to port 46730
PerFlow == MaxPkts

TwoLen == InitialQuantum \div 2

TwoFamilies == {"two", "twoco"}

TwoSock(i) ==
  IF i % 2 = 0 THEN 10 ELSE IF family = "twoco" THEN 2 ELSE 12

Shapes ==
  CASE family = "coflow" ->
         {<<2, 0, 0, 1, TRUE>>, <<4, 0, 0, 1, TRUE>>, <<6, 0, 0, 1, TRUE>>,
          <<6, 0, 0, 10, TRUE>>, <<2, 0, 1, 1, TRUE>>}
    [] family = "edt" ->
         {<<6, 0, 0, 1, TRUE>>, <<6, 0, 1, 1, TRUE>>, <<6, 0, 2, 1, TRUE>>,
          <<4, 0, 0, 10, TRUE>>, <<2, TC_PRIO_CONTROL, 1, 1, TRUE>>}
    [] family = "host" ->
         {<<NULL, 0, 0, 1, TRUE>>, <<8, 0, 0, 1, TRUE>>, <<6, 0, 0, 1, TRUE>>,
          <<6, 0, 0, 1, FALSE>>, <<2, TC_PRIO_CONTROL, 0, 1, TRUE>>,
          <<2, 0, 0, 1, TRUE>>, <<6, 0, Horizon + 1, 1, TRUE>>}
    [] family = "fair" ->
         {<<10, 0, 0, FairLen, TRUE>>, <<6, 0, 0, FairLen, TRUE>>}
    [] family \in TwoFamilies ->
         {<<TwoSock(nextId), 0, 0, TwoLen, TRUE>>}
    [] family = "trim" ->
         {<<6, 0, 0, 1, TRUE>>, <<6, 0, 1, 1, TRUE>>}
    [] family = "cap" ->
         {<<6, 0, 0, 1, TRUE>>, <<6, 0, Horizon + 1, 1, TRUE>>}
    [] family = "flowlim" ->
         {<<6, 0, 0, 1, TRUE>>, <<2, TC_PRIO_CONTROL, 0, 1, TRUE>>}
    [] family = "gc" ->
         CASE nextId = 1 -> {<<10, 0, 0, 1, TRUE>>}
           [] nextId = 2 -> {<<12, 0, 0, 1, TRUE>>}
           [] nextId = 3 -> {<<14, 0, 0, 1, TRUE>>}
           [] nextId = 4 -> {<<6, 0, 0, 1, TRUE>>}
           [] OTHER -> {<<16, 0, 0, 1, TRUE>>, <<16, 0, 0, 1, FALSE>>,
                        <<10, 0, 0, 1, TRUE>>}
    [] family = "peers" ->
         {<<2, 0, 0, 1, TRUE>>, <<6, 0, 0, 1, TRUE>>}
    [] family = "rate" ->
         {<<6, 0, 0, 1, TRUE>>}
    [] family = "reuse" ->
         {<<12, 0, 0, 1, TRUE>>, <<14, 0, 0, 1, TRUE>>, <<14, 0, 0, 10, TRUE>>}
    [] OTHER ->
         {<<6, 0, 0, 1, TRUE>>, <<2, 0, 1, 1, TRUE>>}

Packet(sh) ==
  [id |-> nextId, sk |-> sh[1], hash |-> skb_get_hash(sh[1]), priority |-> sh[2],
   tstamp |-> IF sh[3] = 0 THEN 0 ELSE now + sh[3], time_to_send |-> 0,
   len |-> sh[4]]

\* how many packets the host hands to fq_enqueue in one behaviour
PktBound ==
  CASE family \in {"fair", "gc"} -> MaxPkts + 2
    [] family \in {"flowlim", "peers"} -> MaxPkts + 1
    [] family = "rate" -> InitialQuantum
    [] family \in TwoFamilies -> 2 * PerFlow
    [] OTHER -> MaxPkts

\* the flows of the table that hold a packet
Backlogged(qn) == {k \in DOMAIN qn.flow \ {Internal} : qn.flow[k].qlen > 0}

\* lead after an operation that left the scheduler qn and returned bytes
\* from flow k: kept for the pairs that stay backlogged, started at 0 for
\* the pairs that become so.  It is followed in the fairness scenario.
LeadAfter(qn, k, bytes) ==
  IF family # "fair" THEN lead
  ELSE [p \in {pp \in Backlogged(qn) \X Backlogged(qn) : pp[1] # pp[2]} |->
          IF p \in DOMAIN lead
          THEN lead[p] + (IF p[1] = k THEN bytes ELSE 0)
                       - (IF p[2] = k THEN bytes ELSE 0)
          ELSE 0]

\* served after a dequeue that returned r: the packet, its flow and the
\* time are recorded.  It is followed in the rate scenario.
ServedAfter(r) ==
  IF family = "rate" /\ r.res = "skb"
  THEN served \cup {[id |-> r.skb.id, f |-> r.f, len |-> r.skb.len, t |-> now]}
  ELSE served

\* the scheduler after fq_classify, within the enqueue of the packet of
\* shape sh with collection G
Classified(sh, G) ==
  LET st == EnqueueStamp(S, Packet(sh), now)
  IN fq_classify(st.s, st.skb, G, sh[5], now)

\* the flow of the accepted packet was detached when fq_classify returned
\* it, so that the enqueue links it
Reactivates(sh, G) ==
  /\ fq_enqueue(S, Packet(sh), G, sh[5], now).res = "success"
  /\ Classified(sh, G).f # Internal
  /\ Classified(sh, G).s.flow[Classified(sh, G).f].detached

\* the flow's hash is one of the co-flow ids learned so far
LearnedCoflow(s, k) ==
  \E i \in 1..2 : s.pFlowid[i] # 0 /\ s.pFlowid[i] = s.flow[k].socket_hash

Enqueue ==
  /\ fault = "none"
  /\ nextId <= PktBound
  /\ \E sh \in Shapes :
       \E G \in (IF BitAnd(sh[2], TC_PRIO_MAX) = TC_PRIO_CONTROL
                 THEN {{}} ELSE GcChoices(S, ClassifyKey(Packet(sh)), now)) :
         LET r == fq_enqueue(S, Packet(sh), G, sh[5], now)
         IN /\ q' = QOf(r.s)
            /\ glob' = GlobOf(r.s)
            /\ ret' = [op |-> "enqueue", res |-> r.res, skb |-> r.skb, f |-> r.f,
                       from |-> IF ~Reactivates(sh, G) THEN "none"
                                ELSE IF LearnedCoflow(Classified(sh, G).s, r.f)
                                     THEN "detached_co" ELSE "detached",
                       owed |-> owed]
            /\ fault' = IF r.res = "oops" THEN "oops" ELSE "none"
            /\ accepted' = IF r.res = "success" THEN accepted \cup {nextId}
                           ELSE accepted
            /\ alone' = IF family = "peers"
                         THEN [alone EXCEPT
                                 !.s = fq_enqueue(alone.s, Packet(sh), G, sh[5], now).s]
                         ELSE alone
  /\ nextId' = nextId + 1
  /\ lead' = LeadAfter(q', NULL, 0)
  /\ UNCHANGED <<family, now, sent, freed, trimmed, owed, reuse, served, peer>>

Dequeue ==
  /\ fault = "none"
  /\ family \in TwoFamilies => nextId > PktBound
  /\ LET r == fq_dequeue(S, now)
     IN /\ q' = QOf(r.s)
        /\ glob' = GlobOf(r.s)
        /\ ret' = [op |-> "dequeue", res |-> IF r.skb.id # 0 THEN "skb" ELSE "null",
                   skb |-> r.skb,
                   f |-> IF r.skb.id = 0 THEN NULL
                         ELSE IF r.from = "internal" THEN Internal
                         ELSE Head(r.s[r.from]),
                   from |-> r.from, owed |-> OwedAtServe(r, owed)]
        /\ fault' = IF r.hang THEN "lockup" ELSE "none"
        /\ sent' = IF r.skb.id # 0 THEN sent \cup {r.skb.id} ELSE sent
        /\ owed' = OwedAfter(r, owed)
  /\ lead' = LeadAfter(q', ret'.f, IF ret'.res = "skb" THEN ret'.skb.len ELSE 0)
  /\ served' = ServedAfter(ret')
  /\ alone' = IF family = "peers"
               THEN [s |-> fq_dequeue(alone.s, now).s, skb |-> fq_dequeue(alone.s, now).skb]
               ELSE alone
  /\ UNCHANGED <<family, accepted, now, nextId, freed, trimmed, reuse, peer>>

Reset ==
  /\ fault = "none"
  /\ q' = QOf(fq_reset(S))
  /\ freed' = freed \cup AllQueuedIds(S)
  /\ ret' = [NoRet EXCEPT !.op = "reset"]
  /\ owed' = 0
  /\ lead' = <<>>
  /\ UNCHANGED <<family, accepted, now, glob, nextId, sent, trimmed, fault, reuse,
               served, peer, alone>>

Change ==
  /\ fault = "none"
  /\ \E opt \in ChangeOptsOf(family) :
       LET r == fq_change(S, opt, now, owed)
       IN /\ q' = QOf(r.s)
          /\ glob' = GlobOf(r.s)
          /\ trimmed' = trimmed \cup r.ids
          /\ fault' = IF r.hang THEN "lockup" ELSE "none"
          /\ owed' = r.owed
          /\ ret' = [NoRet EXCEPT !.op = "change"]
  /\ UNCHANGED <<family, accepted, now, nextId, sent, freed, reuse, lead, served,
               peer, alone>>

\* how far the clock moves in one step: one tick, or in the collection
\* scenario an idle period longer than FQ_GC_AGE
TickStep == IF family = "gc" THEN FQ_GC_AGE + 1 ELSE 1

Tick ==
  /\ fault = "none"
  /\ now + TickStep <= 1 + TickStep * (MaxTime - 1)
  /\ now' = now + TickStep
  /\ ret' = [NoRet EXCEPT !.op = "tick"]
  /\ UNCHANGED <<family, accepted, q, glob, nextId, sent, freed, trimmed, owed, fault,
               reuse, lead, served, peer, alone>>

Next == Enqueue \/ Dequeue \/ Reset \/ Change \/ Tick

Spec == Init /\ [][Next]_vars

\* ------------------------------------------------- the host's scenarios
\* the sockets whose address the host reallocates
ReuseSocks == {12, 14}

\* the socket at an address is closed once none of its packets is queued
\* (each packet holds a reference on it) and the address is handed to a new
\* endpoint
Reuse ==
  /\ fault = "none"
  /\ \E sk \in ReuseSocks \ reuse :
       /\ sk \in TableKeys(q)
       /\ \A k \in DOMAIN q.flow :
            \A i \in 1..Len(QueuedSkbs(q.flow[k])) :
              QueuedSkbs(q.flow[k])[i].sk # sk
       /\ reuse' = reuse \cup {sk}
       /\ ret' = [NoRet EXCEPT !.op = "reuse", !.f = sk]
  /\ UNCHANGED <<family, now, q, glob, nextId, accepted, sent, freed, trimmed, owed,
                 fault, lead, served, peer, alone>>

ScenarioFamilies == {"reuse", "fair", "two", "twoco", "rate", "trim", "cap",
                     "flowlim"}

InitScenario ==
  /\ family \in ScenarioFamilies
  /\ now = 1
  /\ q = QInit
  /\ glob = GlobInit
  /\ ret = NoRet
  /\ nextId = 1
  /\ accepted = {}
  /\ sent = {}
  /\ freed = {}
  /\ trimmed = {}
  /\ owed = 0
  /\ fault = "none"
  /\ reuse = {}
  /\ lead = <<>>
  /\ served = {}
  /\ peer = QInit
  /\ alone = [s |-> QInit @@ GlobInit, skb |-> NoSkb]

NextScenario == Enqueue \/ Dequeue \/ Tick \/ Reuse \/ Change

SpecScenario == InitScenario /\ [][NextScenario]_vars

\* ------------------------------------------------------------- properties
\* the scheduler is between two operations: the last one returned
Quiescent == fault = "none"

RECURSIVE SumQlen(_, _)
SumQlen(flow, keys) ==
  IF keys = {} THEN 0
  ELSE LET k == CHOOSE x \in keys : TRUE
       IN flow[k].qlen + SumQlen(flow, keys \ {k})

\* the number of packets linked in the flows, counted flow by flow
RECURSIVE SumQueued(_, _)
SumQueued(flow, keys) ==
  IF keys = {} THEN 0
  ELSE LET k == CHOOSE x \in keys : TRUE
       IN Len(flow[k].head) + Len(flow[k].t_root) + SumQueued(flow, keys \ {k})

\* how many times flow k is linked on the lists and the ThrottleTree
Count(seq, k) == Cardinality({i \in 1..Len(seq) : seq[i] = k})
Links(k) ==
  Count(q.new_flows, k) + Count(q.old_flows, k) + Count(q.co_flows, k)
    + Count(q.delayed, k)

Sorted(seq) ==
  \A i \in 1..(Len(seq) - 1) : seq[i].time_to_send <= seq[i + 1].time_to_send

\* the packets of a flow in the order successive fq_peek / fq_erase_head
\* hand them out
RECURSIVE Drain(_)
Drain(f) ==
  LET skb == fq_peek(f)
  IN IF skb.id = 0 THEN <<>> ELSE <<skb>> \o Drain(fq_erase_head(f, skb))

\* C1: between operations, the global qlen is the sum of the flows' qlen
\* (q->internal included), and each flow's qlen is the length of its FIFO
\* chain plus the size of its EDT tree.
C1_QlenAccounting ==
  Quiescent =>
    /\ q.qlen = SumQlen(q.flow, DOMAIN q.flow)
    /\ \A k \in DOMAIN q.flow :
         q.flow[k].qlen = Len(q.flow[k].head) + Len(q.flow[k].t_root)

\* a dequeue has just returned a packet and left two packets behind, one
\* of them in an EDT tree
C1_Witness ==
  /\ ret.op = "dequeue" /\ ret.res = "skb"
  /\ q.qlen = 2
  /\ \E k \in DOMAIN q.flow : q.flow[k].t_root # <<>>

\* C2: every packet accepted by fq_enqueue is queued exactly once in exactly
\* one flow, or was returned by exactly one fq_dequeue (to the host, or to
\* fq_change which frees it), or was released by fq_reset; the three fates
\* exclude each other and a dropped packet has none of them.
C2_Conservation ==
  LET queued == AllQueuedIds(q)
  IN /\ Cardinality(queued) = SumQueued(q.flow, DOMAIN q.flow)
     /\ queued \cup sent \cup trimmed \cup freed = accepted
     /\ queued \cap (sent \cup trimmed \cup freed) = {}
     /\ sent \cap (trimmed \cup freed) = {}
     /\ trimmed \cap freed = {}

\* one packet was sent, one released by a reset, one is queued
C2_Witness ==
  /\ sent # {} /\ freed # {} /\ AllQueuedIds(q) # {}

\* C6: in every flow the FIFO chain is non-decreasing in time_to_send,
\* fq_peek returns a queued packet of minimum time_to_send (none only when
\* the flow is empty), and draining the flow by successive fq_peek and
\* removal returns all its packets in non-decreasing time_to_send.
C6_EdtOrder ==
  \A k \in DOMAIN q.flow :
    LET f == q.flow[k]
        all == QueuedSkbs(f)
    IN /\ Sorted(f.head)
       /\ (fq_peek(f).id = 0) <=> (all = <<>>)
       /\ all # <<>> =>
            /\ fq_peek(f).id \in QueuedIds(f)
            /\ \A i \in 1..Len(all) : fq_peek(f).time_to_send <= all[i].time_to_send
       /\ Sorted(Drain(f))
       /\ Len(Drain(f)) = Len(all)

\* a flow holds a packet in its EDT tree that is due before the chain's head
C6_Witness ==
  \E k \in DOMAIN q.flow :
    /\ q.flow[k].head # <<>> /\ q.flow[k].t_root # <<>>
    /\ Head(q.flow[k].t_root).time_to_send < Head(q.flow[k].head).time_to_send

\* C7: between operations every flow of the table is in at most one of
\* new_flows, old_flows, co_flows, the ThrottleTree and the detached state,
\* and is linked there once.
C7_OnePlace ==
  Quiescent =>
    \A k \in TableKeys(q) :
      Links(k) + (IF q.flow[k].detached THEN 1 ELSE 0) <= 1

\* one flow waits on co_flows, one is throttled and one is detached
C7_Witness ==
  /\ Quiescent
  /\ q.co_flows # <<>> /\ q.delayed # <<>>
  /\ \E k \in TableKeys(q) : q.flow[k].detached

\* C8: between operations every flow of the table that holds a packet is on
\* exactly one round-robin list or in the ThrottleTree and is not detached;
\* q->internal is on no list and not in the ThrottleTree.
C8_BackloggedLinked ==
  Quiescent =>
    /\ \A k \in TableKeys(q) :
         q.flow[k].qlen > 0 => Links(k) = 1 /\ ~q.flow[k].detached
    /\ Links(Internal) = 0

\* q->internal holds a packet while another flow is throttled
C8_Witness ==
  /\ Quiescent
  /\ q.flow[Internal].qlen > 0
  /\ \E k \in TableKeys(q) : q.flow[k].qlen > 0 /\ Count(q.delayed, k) = 1

\* every queued packet may be sent now: its time_to_send and its flow's
\* time_next_packet have passed
AllDue ==
  \A k \in DOMAIN q.flow :
    /\ q.flow[k].time_next_packet <= now
    /\ \A i \in 1..Len(QueuedSkbs(q.flow[k])) :
         QueuedSkbs(q.flow[k])[i].time_to_send <= now

\* C3: no starvation.  A dequeue invoked when every queued packet is due
\* returns a packet unless nothing is queued (after such a dequeue returned
\* none, every later dequeue finds the same lists and returns none as well).
C3_NoStarvation ==
  (Quiescent /\ ret.op = "dequeue" /\ ret.res = "null" /\ AllDue) => q.qlen = 0

\* the minimum over the ThrottleTree, U64_MAX when it is empty
RECURSIVE MinNext(_)
MinNext(seq) ==
  IF seq = <<>> THEN U64_MAX
  ELSE Min(q.flow[Head(seq)].time_next_packet, MinNext(Tail(seq)))

\* C4: a dequeue returns no packet while packets are queued only when
\* new_flows, old_flows and co_flows are all empty and every flow that holds
\* a packet is throttled until after now.
C4_NullOnlyWhenThrottled ==
  (Quiescent /\ ret.op = "dequeue" /\ ret.res = "null" /\ q.qlen > 0) =>
    /\ q.new_flows = <<>> /\ q.old_flows = <<>> /\ q.co_flows = <<>>
    /\ \A k \in TableKeys(q) :
         q.flow[k].qlen > 0 =>
           Count(q.delayed, k) = 1 /\ q.flow[k].time_next_packet > now

\* C5 as claimed: no packet is returned by fq_dequeue before its
\* time_to_send, whatever flow it was queued on, q->internal included.
C5_NotBeforeTimeToSend ==
  (ret.op = "dequeue" /\ ret.res = "skb") => ret.skb.time_to_send <= now

\* C5 amended: no packet queued on a flow of the table is returned by
\* fq_dequeue before its time_to_send; packets of q->internal are returned
\* at once.
C5_NotBeforeTimeToSendFlows ==
  (ret.op = "dequeue" /\ ret.res = "skb" /\ ret.from # "internal") =>
    ret.skb.time_to_send <= now

\* a packet stamped with a later departure time was held and is returned
\* exactly at that time
C5_Witness ==
  /\ ret.op = "dequeue" /\ ret.res = "skb" /\ ret.from # "internal"
  /\ ret.skb.tstamp # 0 /\ ret.skb.time_to_send = now

CoReady ==
  \E i \in 1..Len(q.co_flows) :
    LET f == q.flow[q.co_flows[i]]
    IN fq_peek(f).id # 0 /\ SendTime(fq_peek(f), f) <= now

\* C10: after the breach (ucounter = 2 sets flipflag) the next two packets
\* fq_dequeue returns come from flows on co_flows: no packet is returned
\* from new_flows or old_flows while a serving is still due to co_flows and
\* a flow on co_flows has a packet to send.
C10_TwoCoServings ==
  (ret.op = "dequeue" /\ ret.res = "skb"
     /\ ret.from \in {"new_flows", "old_flows"} /\ ret.owed > 0) => ~CoReady

\* the step is a fq_enqueue that returned NET_XMIT_SUCCESS for a packet
\* that still has its socket
EnqueuedOwned ==
  ret'.op = "enqueue" /\ ret'.res = "success" /\ ret'.skb.sk # NULL

\* C11: fq_enqueue learns pFlowid[0] only from a packet whose own source
\* port is 46730 and pFlowid[1] only from a packet whose own source port is
\* 46731; a packet with any other source port leaves pFlowid as it was.
C11_LearnFromOwnPort ==
  [][EnqueuedOwned =>
       /\ glob'.pFlowid[1] # glob.pFlowid[1] => sk_num(ret'.skb.sk) = F1_SPORT
       /\ glob'.pFlowid[2] # glob.pFlowid[2] => sk_num(ret'.skb.sk) = F2_SPORT]_vars

\* the packet is classified by its own socket, whose flow is in the table
ThroughEndpoint(skb) ==
  /\ skb.sk # NULL
  /\ BitAnd(skb.priority, TC_PRIO_MAX) # TC_PRIO_CONTROL
  /\ ClassifyKey(skb) = skb.sk
  /\ skb.sk \in TableKeys(q)

\* C13: a further packet of an endpoint whose hash has not changed is
\* classified to its flow with the flow's credit and time_next_packet as
\* they were and the ThrottleTree untouched.
C13_ClassifyFrame ==
  \A sh \in Shapes :
    (Quiescent /\ ThroughEndpoint(Packet(sh)) /\ sh[1] \notin reuse) =>
      LET c == fq_classify(S, Packet(sh), {}, TRUE, now)
      IN /\ c.f = sh[1]
         /\ c.s.flow[sh[1]].credit = q.flow[sh[1]].credit
         /\ c.s.flow[sh[1]].time_next_packet = q.flow[sh[1]].time_next_packet
         /\ c.s.delayed = q.delayed

\* C12: the first packet classified through an address after it was handed
\* to a new endpoint gets the flow that is in the table for the address,
\* with credit = initial_quantum, time_next_packet = 0 and socket_hash the
\* new endpoint's hash, and a flow that was throttled is at the tail of
\* old_flows and out of the ThrottleTree.
C12_ReuseRefill ==
  \A sh \in Shapes :
    (ret.op = "reuse" /\ ret.f = sh[1] /\ ThroughEndpoint(Packet(sh))) =>
      LET c == fq_classify(S, Packet(sh), {}, TRUE, now)
          f == c.s.flow[sh[1]]
      IN /\ c.f = sh[1]
         /\ f.credit = InitialQuantum
         /\ f.time_next_packet = 0
         /\ f.socket_hash = sk_hash(sh[1])
         /\ Count(q.delayed, sh[1]) = 1 =>
              /\ Count(c.s.delayed, sh[1]) = 0
              /\ c.s.old_flows = Append(q.old_flows, sh[1])

\* ------------------------------------------- the collection of old flows
InitGc ==
  /\ family = "gc"
  /\ now = 1
  /\ q = QInit
  /\ glob = GlobInit
  /\ ret = NoRet
  /\ nextId = 1
  /\ accepted = {}
  /\ sent = {}
  /\ freed = {}
  /\ trimmed = {}
  /\ owed = 0
  /\ fault = "none"
  /\ reuse = {}
  /\ lead = <<>>
  /\ served = {}
  /\ peer = QInit
  /\ alone = [s |-> QInit @@ GlobInit, skb |-> NoSkb]

\* fq_change with TCA_FQ_BUCKETS_LOG alone: fq_resize
Resize ==
  /\ fault = "none"
  /\ \E log \in {FqTreesLog, FqTreesLog + 1} :
       /\ log # q.fq_trees_log
       /\ q' = QOf(fq_resize(S, log, now))
  /\ ret' = [NoRet EXCEPT !.op = "resize"]
  /\ UNCHANGED <<family, now, glob, nextId, accepted, sent, freed, trimmed, owed,
                 fault, reuse, lead, served, peer, alone>>

NextGc == Enqueue \/ Dequeue \/ Tick \/ Resize

SpecGc == InitGc /\ [][NextGc]_vars

\* --------------------------------------------- two Qdiscs of the module
\* the second Qdisc with the file-scope variables, which it shares
PeerS == peer @@ glob

\* fq_enqueue on the second Qdisc
EnqueuePeer ==
  /\ fault = "none"
  /\ nextId <= PktBound
  /\ \E sh \in Shapes :
       LET r == fq_enqueue(PeerS, Packet(sh), {}, sh[5], now)
       IN /\ peer' = QOf(r.s)
          /\ glob' = GlobOf(r.s)
          /\ fault' = IF r.res = "oops" THEN "oops" ELSE "none"
          /\ ret' = [NoRet EXCEPT !.op = "peer_enqueue", !.res = r.res]
  /\ nextId' = nextId + 1
  /\ UNCHANGED <<family, now, q, accepted, sent, freed, trimmed, owed, reuse, lead,
                 served, alone>>

\* fq_dequeue on the second Qdisc
DequeuePeer ==
  /\ fault = "none"
  /\ LET r == fq_dequeue(PeerS, now)
     IN /\ peer' = QOf(r.s)
        /\ glob' = GlobOf(r.s)
        /\ fault' = IF r.hang THEN "lockup" ELSE "none"
        /\ ret' = [NoRet EXCEPT !.op = "peer_dequeue",
                                !.res = IF r.skb.id # 0 THEN "skb" ELSE "null"]
  /\ UNCHANGED <<family, now, q, nextId, accepted, sent, freed, trimmed, owed, reuse,
                 lead, served, alone>>

InitPeers ==
  /\ family = "peers"
  /\ now = 1
  /\ q = QInit
  /\ glob = GlobInit
  /\ ret = NoRet
  /\ nextId = 1
  /\ accepted = {}
  /\ sent = {}
  /\ freed = {}
  /\ trimmed = {}
  /\ owed = 0
  /\ fault = "none"
  /\ reuse = {}
  /\ lead = <<>>
  /\ served = {}
  /\ peer = QInit
  /\ alone = [s |-> QInit @@ GlobInit, skb |-> NoSkb]

NextPeers == Enqueue \/ Dequeue \/ Tick \/ EnqueuePeer \/ DequeuePeer

SpecPeers == InitPeers /\ [][NextPeers]_vars

\* the constant of the fairness bound: both flows' initial credit, one
\* quantum of rotation skew and one packet of overshoot for each flow
FairBound == 2 * InitialQuantum + Quantum + 2 * FairLen

\* C14: with no rate limit and equal-sized packets, for two flows that stay
\* backlogged together the bytes served from one exceed the bytes served
\* from the other by no more than a constant of initial_quantum, quantum
\* and the packet size.
C14_BoundedLead ==
  \A p \in DOMAIN lead : lead[p] <= FairBound

\* the two-flows scenario has offered all its packets
AllOffered == family \in TwoFamilies /\ nextId > PktBound

\* C15: after PerFlow equal-sized packets have been enqueued in turn into
\* each of two flows with no rate limit, the first 2 * PerFlow dequeues
\* return PerFlow packets of each flow: while one of these packets is
\* queued, fq_dequeue returns a packet.
C15_TwoEqualFlows ==
  [][(AllOffered /\ ret'.op = "dequeue" /\ q.qlen > 0) => ret'.res = "skb"]_vars

\* half the quantum: the size of a full packet
MTU == Quantum \div 2

\* bytes of the packets in the set P
RECURSIVE Bytes(_)
Bytes(P) ==
  IF P = {} THEN 0
  ELSE LET x == CHOOSE y \in P : TRUE IN x.len + Bytes(P \ {x})

\* bytes returned from flow k at the instants t0 .. t0 + one second - 1
WindowBytes(k, t0) ==
  Bytes({x \in served : x.f = k /\ x.t >= t0 /\ x.t < t0 + NSEC_PER_SEC})

RateFor(skb) ==
  IF skb.tstamp = 0 /\ skb.sk # NULL
  THEN Min(sk_pacing_rate(skb.sk), FlowMaxRate) ELSE FlowMaxRate

DelayFor(skb) ==
  LET plen == IF RateFor(skb) <= LowRateThreshold THEN skb.len
              ELSE Max(skb.len, Quantum)
  IN Min(NSEC_PER_SEC, (plen * NSEC_PER_SEC) \div RateFor(skb))

QlenBefore(k) == IF k \in DOMAIN q.flow THEN q.flow[k].qlen ELSE 0

C19_Horizon ==
  Quiescent =>
    \A sh \in Shapes :
      LET p == Packet(sh)
          e == fq_enqueue(S, p, {}, sh[5], now)
          beyond == p.tstamp > now + Horizon
      IN e.res # "drop_tail" =>
           /\ (beyond /\ q.horizon_drop = 1) =>
                /\ e.res = "drop_horizon"
                /\ e.s.stat.horizon_drops = q.stat.horizon_drops + 1
           /\ (beyond /\ q.horizon_drop = 0) =>
                /\ e.res # "drop_horizon"
                /\ e.skb.time_to_send = now + Horizon
                /\ e.s.stat.horizon_caps = q.stat.horizon_caps + 1
           /\ ~beyond =>
                /\ e.res # "drop_horizon"
                /\ e.skb.time_to_send = (IF p.tstamp = 0 THEN now ELSE p.tstamp)
                /\ e.s.stat.horizon_drops = q.stat.horizon_drops
                /\ e.s.stat.horizon_caps = q.stat.horizon_caps
           /\ e.res = "success" => e.skb.time_to_send <= now + Horizon

\* one packet beyond the horizon was dropped and, horizon_drop cleared, the
\* next one is accepted with its time capped
C19_Witness ==
  /\ q.stat.horizon_drops > 0 /\ q.stat.horizon_caps > 0
  /\ ret.op = "enqueue" /\ ret.res = "success"
  /\ ret.skb.time_to_send = now + Horizon

\* C20: a packet of control priority is classified to the internal flow,
\* and while the internal flow holds a packet fq_dequeue returns the internal
\* flow's first packet, whatever the lists, the credits, the throttled
\* flows and flipflag are.
C20_InternalFirst ==
  Quiescent =>
    /\ \A sh \in Shapes :
         BitAnd(sh[2], TC_PRIO_MAX) = TC_PRIO_CONTROL =>
           fq_classify(S, Packet(sh), {}, sh[5], now).f = Internal
    /\ q.flow[Internal].qlen > 0 =>
         LET r == fq_dequeue(S, now)
         IN /\ r.from = "internal" /\ ~r.hang
            /\ r.skb = fq_peek(q.flow[Internal])
            /\ r.skb.id # 0

\* a control packet enqueued after a packet of another flow left first, the
\* other flow still waiting on new_flows
C20_Witness ==
  /\ ret.op = "dequeue" /\ ret.from = "internal"
  /\ BitAnd(ret.skb.priority, TC_PRIO_MAX) = TC_PRIO_CONTROL
  /\ q.new_flows # <<>>
  /\ \E k \in DOMAIN q.flow \ {Internal} :
       q.flow[k].qlen > 0 /\ fq_peek(q.flow[k]).id < ret.skb.id

\* the scheduler holds nothing: no packet, no flow but q->internal, empty
\* lists and throttled tree, counters at 0
Emptied(s) ==
  /\ s.qlen = 0
  /\ DOMAIN s.flow = {Internal}
  /\ s.flow[Internal].qlen = 0 /\ QueuedSkbs(s.flow[Internal]) = <<>>
  /\ s.new_flows = <<>> /\ s.old_flows = <<>> /\ s.co_flows = <<>>
  /\ s.delayed = <<>>
  /\ s.flows = 0 /\ s.inactive_flows = 0 /\ s.throttled_flows = 0

\* every accepted packet has left in exactly one way
ReleasedOnce ==
  /\ accepted = sent \cup freed \cup trimmed
  /\ sent \cap freed = {} /\ sent \cap trimmed = {} /\ freed \cap trimmed = {}

\* C21 as stated: after reset the scheduler is empty, every packet that was
\* queued has been released exactly once, and no wakeup is pending.
C21_ResetCancels ==
  ret.op = "reset" => Emptied(q) /\ ReleasedOnce /\ q.watchdog = 0

\* C21 (amended): after reset the scheduler is empty and every packet that was
\* queued has been released exactly once; fq_reset leaves a pending wakeup
\* and time_next_delayed_flow as they were, and it is fq_destroy that cancels
\* the wakeup.
C21_ResetEmpties ==
  /\ ret.op = "reset" => Emptied(q) /\ ReleasedOnce
  /\ Quiescent =>
       /\ Emptied(fq_reset(S))
       /\ fq_reset(S).watchdog = q.watchdog
       /\ fq_reset(S).time_next_delayed_flow = q.time_next_delayed_flow
       /\ Emptied(fq_destroy(S)) /\ fq_destroy(S).watchdog = 0

\* a reset released queued packets while a wakeup was pending
C21_Witness ==
  /\ ret.op = "reset" /\ freed # {}
  /\ q.watchdog # 0

\* C22: a Qdisc driven by its own enqueues and dequeues, interleaved with
\* those of a second Qdisc, returns at each fq_dequeue the packet it returns
\* when it runs alone.
C22_InstanceIndependence ==
  (fault = "none" /\ ret.op = "dequeue") => ret.skb.id = alone.skb.id

\* C23: fq_enqueue returns NET_XMIT_SUCCESS or drops the packet, for every
\* packet, the one without a socket or of a listener included: it never
\* stops the kernel.
C23_EnqueueNeverFaults ==
  ret.op = "enqueue" =>
    /\ ret.res \in {"success", "drop_tail", "drop_horizon", "drop_flow"}
    /\ fault = "none"

\* the detached flows of the table
Detached(s) == {k \in TableKeys(s) : s.flow[k].detached}

\* flows and inactive_flows count the flows of the table and the detached ones
Counted(s) ==
  /\ s.flows = Cardinality(TableKeys(s))
  /\ s.inactive_flows = Cardinality(Detached(s))

\* the flows of G may be freed: detached, older than FQ_GC_AGE, empty, on no
\* list and not in the ThrottleTree
Collectable(G) ==
  \A k \in G :
    /\ q.flow[k].detached /\ now > q.flow[k].age + FQ_GC_AGE
    /\ q.flow[k].qlen = 0 /\ QueuedSkbs(q.flow[k]) = <<>>
    /\ Links(k) = 0

\* the scheduler s still has every flow of the table but those of G,
\* unchanged
OthersKept(s, G) ==
  /\ TableKeys(s) = TableKeys(q) \ G
  /\ \A k \in TableKeys(s) : s.flow[k] = q.flow[k] /\ s.flow[k].sk = k

FailedAllocation(e, p, G) ==
  /\ e.res = "success" /\ e.f = Internal
  /\ e.s.stat.allocation_errors = q.stat.allocation_errors + 1
  /\ e.s.flow[Internal].qlen = q.flow[Internal].qlen + 1
  /\ p.id \in QueuedIds(e.s.flow[Internal])
  /\ e.s.qlen = q.qlen + 1
  /\ TableKeys(e.s) = TableKeys(q) \ G
  /\ e.s.new_flows = q.new_flows /\ e.s.old_flows = q.old_flows
  /\ e.s.co_flows = q.co_flows /\ e.s.delayed = q.delayed

\* the packet of shape sh needs a new flow and the allocation fails
NeedsFlow(sh) ==
  /\ ~sh[5]
  /\ BitAnd(sh[2], TC_PRIO_MAX) # TC_PRIO_CONTROL
  /\ ClassifyKey(Packet(sh)) \notin TableKeys(q)
  /\ q.qlen < q.limit
  /\ sh[3] <= Horizon

\* C24 as stated: a failed allocation leaves flows and inactive_flows
\* unchanged.
C24_AllocFailureKeepsCounts ==
  Quiescent =>
    \A sh \in Shapes :
      NeedsFlow(sh) =>
        \A G \in GcChoices(S, ClassifyKey(Packet(sh)), now) :
          LET e == fq_enqueue(S, Packet(sh), G, sh[5], now)
          IN /\ FailedAllocation(e, Packet(sh), G)
             /\ e.s.flows = q.flows /\ e.s.inactive_flows = q.inactive_flows

\* C24 (amended): when the flow cannot be allocated, allocation_errors is
\* incremented, the packet is queued on the internal flow and the enqueue
\* returns success, no flow is added to the table or to a list; flows and
\* inactive_flows change only by the flows that the collection of the same
\* classification freed before the allocation.
C24_AllocFailure ==
  Quiescent =>
    \A sh \in Shapes :
      NeedsFlow(sh) =>
        \A G \in GcChoices(S, ClassifyKey(Packet(sh)), now) :
          LET e == fq_enqueue(S, Packet(sh), G, sh[5], now)
          IN /\ FailedAllocation(e, Packet(sh), G)
             /\ e.s.flows = q.flows - Cardinality(G)
             /\ e.s.inactive_flows = q.inactive_flows - Cardinality(G)

\* the packet of a socket without a flow went to q->internal after a failed
\* allocation, in a scheduler that has collected old flows
C24_Witness ==
  /\ ret.op = "enqueue" /\ ret.res = "success" /\ ret.f = Internal
  /\ BitAnd(ret.skb.priority, TC_PRIO_MAX) # TC_PRIO_CONTROL
  /\ q.stat.allocation_errors > 0
  /\ q.stat.gc_flows > 0

\* C25 as stated: a detached flow that is re-activated goes to the tail of
\* co_flows when its socket_hash matches a learned co-flow id.
C25_ActivateToCoflows ==
  Quiescent =>
    \A sh \in Shapes :
      \A G \in GcChoices(S, ClassifyKey(Packet(sh)), now) :
        LET c == Classified(sh, G)
            e == fq_enqueue(S, Packet(sh), G, sh[5], now)
        IN (Reactivates(sh, G) /\ LearnedCoflow(c.s, c.f)) =>
             /\ e.s.co_flows = Append(c.s.co_flows, c.f)
             /\ e.s.new_flows = c.s.new_flows

\* C25 (amended): when enqueue re-activates a detached flow, the flow is
\* pushed to the tail of new_flows whatever its socket_hash, inactive_flows
\* is decremented, and the flow is then on that one list once; after
\* classification, the enqueue to a flow that is not detached changes no
\* list.
C25_ActivateToNewFlows ==
  Quiescent =>
    \A sh \in Shapes :
      \A G \in GcChoices(S, ClassifyKey(Packet(sh)), now) :
        LET c == Classified(sh, G)
            e == fq_enqueue(S, Packet(sh), G, sh[5], now)
        IN e.res = "success" =>
             /\ e.s.old_flows = c.s.old_flows /\ e.s.co_flows = c.s.co_flows
             /\ e.s.delayed = c.s.delayed
             /\ IF Reactivates(sh, G)
                THEN /\ e.s.new_flows = Append(c.s.new_flows, c.f)
                     /\ Count(c.s.new_flows, c.f) = 0
                     /\ Count(e.s.old_flows, c.f) + Count(e.s.co_flows, c.f)
                          + Count(e.s.delayed, c.f) = 0
                     /\ ~e.s.flow[c.f].detached
                     /\ e.s.inactive_flows = c.s.inactive_flows - 1
                ELSE /\ e.s.new_flows = c.s.new_flows
                     /\ e.s.inactive_flows = c.s.inactive_flows

\* a detached flow whose hash is a learned co-flow id has been activated:
\* it waits at the tail of new_flows, and co_flows is empty
C25_Witness ==
  /\ ret.op = "enqueue" /\ ret.res = "success" /\ ret.from = "detached_co"
  /\ q.new_flows # <<>> /\ q.new_flows[Len(q.new_flows)] = ret.f
  /\ q.co_flows = <<>>
  /\ q.inactive_flows = 0

\* the scheduler at label begin of a dequeue at this instant
AtBegin == fq_check_throttled([S EXCEPT !.ktime_cache = now], now)

\* the loop reaches the credit gate at its first pass: a head flow that is
\* not promoted, with neither breach nor relief pending
AtGate(s) ==
  /\ s.qlen > 0 /\ fq_peek(s.flow[Internal]).id = 0
  /\ PickHead(s) # "none"
  /\ LET head == PickHead(s)
         k == Head(s[head])
     IN /\ valuePresentInArray(s.flow[k].socket_hash, s.pFlowid) = -1
             \/ head = "co_flows"
        /\ ~(s.ucounter = 2 /\ head # "co_flows")
        /\ ~(s.ucounter = 0 /\ head = "co_flows")

\* the scheduler after the gate has turned the head flow away
Gated(s) ==
  LET head == PickHead(s)
      k == Head(s[head])
      s1 == IF s.flipflag # 0 /\ head = "co_flows"
            THEN [s EXCEPT !.ucounter = @ - 1] ELSE s
      s2 == [s1 EXCEPT !.flow[k].credit = s.flow[k].credit + Quantum,
                       ![head] = Tail(s[head])]
  IN [s2 EXCEPT !.old_flows = Append(s2.old_flows, k)]

\* C26: a dequeue never returns a packet of a non-internal flow whose credit
\* was <= 0 when it was served; a flow that comes to the gate at the head of
\* a list with credit <= 0 is not served there: quantum is added to its
\* credit and it moves to the tail of old_flows, and the dequeue goes on
\* from that state; a detached flow has credit > 0.
C26_CreditGate ==
  Quiescent =>
    /\ \A k \in Detached(q) : q.flow[k].credit > 0
    /\ LET r == fq_dequeue(S, now)
       IN (r.skb.id # 0 /\ r.from # "internal" /\ ~r.hang) =>
            LET k == Head(r.s[r.from])
            IN \/ r.s.flow[k].credit + r.skb.len > 0
               \/ /\ r.skb.tstamp = 0 /\ r.s.flow[k].credit = 0
                  /\ Min(sk_pacing_rate(r.skb.sk), FlowMaxRate) <= LowRateThreshold
    /\ (AtGate(AtBegin) /\ AtBegin.flow[Head(AtBegin[PickHead(AtBegin)])].credit <= 0) =>
         fq_dequeue(S, now) = DequeueLoop(Gated(AtBegin), now, FALSE)

\* a flow has left the gate with the quantum: too few packets were sent for
\* its credit to have come down to the quantum by service alone; the flow
\* has since been detached
C26_Witness ==
  /\ ret.op = "dequeue"
  /\ Cardinality(sent) < InitialQuantum - Quantum
  /\ \E k \in Detached(q) : q.flow[k].credit \in 1..Quantum

\* C27: a dequeue takes ucounter down only when it returns a packet of a
\* flow on co_flows, and a dequeue that returns a packet from new_flows or
\* old_flows with ucounter = 0 leaves flipflag cleared.
C27_Relief ==
  Quiescent =>
    LET r == fq_dequeue(S, now)
    IN ~r.hang =>
         /\ r.s.ucounter < S.ucounter => (r.skb.id # 0 /\ r.from = "co_flows")
         /\ (r.skb.id # 0 /\ r.from \in {"new_flows", "old_flows"}
               /\ r.s.ucounter = 0) => r.s.flipflag = 0

\* C29: in every reachable state 0 <= ucounter <= 2: ucounter is never
\* decremented at 0 and never incremented past 2.
C29_UcounterRange == glob.ucounter \in 0..2

====
